---- MODULE Spec2Model ----
(***************************************************************************)
(* Execution lifecycle of the SQS pipeline: ProducerController,            *)
(* ConsumerController and ReplayController over ExecutionModel (the        *)
(* DynamoDB executions table), QueueModel (main queue and dead-letter      *)
(* queue) and LogModel.                                                    *)
(*                                                                         *)
(* One action is one invocation of a handler, run to its end.  Every       *)
(* awaited store, queue or log call of the handler may reject; a rejected  *)
(* call has no effect and the handler's own try/catch decides what         *)
(* follows.  The handler's outcome for every choice of rejected calls is   *)
(* computed by the operators below, call by call in the order of the       *)
(* source.  After an invocation the variable inv holds what it did and     *)
(* returned, until the action End discards it.                             *)
(***************************************************************************)
EXTENDS Naturals, Sequences, FiniteSets, Bags

\* ------------------------------------------------------------------ bounds
MaxQueue == 2           \* messages in the main queue
MaxDLQ == 2             \* messages in the dead-letter queue
MaxRetryCount == 4      \* no attempt is started that could store more

\* ------------------------------------------------------- program constants
MAX_RETRY_ATTEMPTS == 3       \* consumer.controller.js
MaxReceiveCount == 3          \* redrive policy of the main queue
BatchSize == 10               \* messages per delivered batch
DLQ_FETCH_MAX == 10           \* fetchDLQMessages(10)

\* ------------------------------------------------------------------ values
Undefined == 0                \* the JavaScript value undefined, as an id
ExecIds == {1, 2}             \* the execution ids a request or message may name
NewIds == {1}                 \* those of them uuidv4 hands out, in order
Actions == {"task"}           \* action names of submitted payloads
NoAction == "undefined"       \* a payload or action that is not there

StoreError == "store error"   \* message of a rejected DynamoDB call
QueueError == "queue error"   \* message of a rejected SQS call
LogError == "log error"       \* message of a rejected log write
NotFound == "Execution not found"

\* A request body without any of the fields the handlers read.
NoBody ==
    [action |-> NoAction, execution_id |-> Undefined, message |-> NoAction,
     payload |-> NoAction, webhookUrl |-> NoAction]

NoResult == [kind |-> "none", msg |-> ""]
ErrorResult(message) == [kind |-> "error", msg |-> message]

Min(a, b) == IF a <= b THEN a ELSE b

\* A missing item of the executions table.
NoRecord ==
    [exists |-> FALSE, execution_id |-> Undefined, status |-> "none",
     action |-> NoAction, payload |-> NoAction, retry_count |-> 0,
     result |-> NoResult]

VARIABLES
    records,    \* executions table: execution id -> item
    mainq,      \* main queue: bag of messages
    dlq,        \* dead-letter queue: set of messages, each with its handle
    logs,       \* log table: the entries written by the invocation in inv
    next_id,    \* the id uuidv4 produces next
    inv,        \* the invocation that has just run: what it did and returned
    hist        \* per execution: failed attempts in a row since creation

vars == <<records, mainq, dlq, logs, next_id, inv, hist>>

\* --------------------------------------------------------- ExecutionModel
\* A createExecution that puts the item with one attempt already counted.
createExecutionCounted(execution_id, payload) ==
    [exists |-> TRUE, execution_id |-> execution_id, status |-> "queued",
     action |-> payload, payload |-> payload, retry_count |-> 1,
     result |-> NoResult]

\* ExecutionModel.createExecution: the item PutCommand stores.  A payload is
\* named by its action.
createExecution(execution_id, payload) ==
    [exists |-> TRUE, execution_id |-> execution_id, status |-> "queued",
     action |-> payload, payload |-> payload, retry_count |-> 0,
     result |-> NoResult]

\* ExecutionModel.getExecution: result.Item || null.
getExecution(recs, execution_id) ==
    IF execution_id \in DOMAIN recs THEN recs[execution_id] ELSE NoRecord

\* An updateExecution that puts a new item holding the SET attributes alone.
updateExecutionReplacing(recs, execution_id, status, result_data, retry_count) ==
    LET old == recs[execution_id]
        new == [NoRecord EXCEPT !.exists = TRUE,
                                !.status = status,
                                !.retry_count = retry_count,
                                !.result = IF result_data.kind # "none"
                                           THEN result_data ELSE old.result]
    IN  [recs EXCEPT ![execution_id] = new]

\* ExecutionModel.updateExecution: UpdateCommand SETs status and retry_count,
\* and result only when result_data is truthy; a missing item is created with
\* the SET attributes alone.
updateExecution(recs, execution_id, status, result_data, retry_count) ==
    LET old == recs[execution_id]
        new == [old EXCEPT !.exists = TRUE,
                           !.status = status,
                           !.retry_count = retry_count,
                           !.result = IF result_data.kind # "none"
                                      THEN result_data ELSE @]
    IN  [recs EXCEPT ![execution_id] = new]

\* The defaults of updateExecution's signature: result_data = null, retry_count = 0.
DefaultResultData == NoResult
DefaultRetryCount == 0

\* --------------------------------------------------------------- LogModel
\* LogModel.writeLog: one more entry in the log table.
writeLog(lg, execution_id, level, message) ==
    Append(lg, [execution_id |-> execution_id, level |-> level, message |-> message])

\* ------------------------------------------------------------- QueueModel
\* QueueModel.sendToQueue: the message body {execution_id, ...payload}; rcv is
\* the queue's receive count of the message.
MessageBody(execution_id, payload) ==
    [execution_id |-> execution_id, action |-> payload, rcv |-> 0]

\* A sendToQueue whose message never arrives.
sendToQueueDropped(q, execution_id, payload) ==
    q

sendToQueue(q, execution_id, payload) ==
    q (+) SetToBag({MessageBody(execution_id, payload)})

\* No message.
NothingSent == [execution_id |-> Undefined, action |-> NoAction, rcv |-> 0]

\* The message that queue q1 holds more often than queue q.
Sent(q, q1) ==
    IF q1 = q THEN NothingSent
    ELSE CHOOSE m \in BagToSet(q1) : CopiesIn(m, q1) > CopiesIn(m, q)

\* The messages of the queue that name execution_id.
MessagesFor(q, execution_id) ==
    BagCardinality([m \in {n \in BagToSet(q) : n.execution_id = execution_id} |-> q[m]])

\* QueueModel.deleteFromDLQ: the message under the receipt handle is gone.
deleteFromDLQ(d, receipt_handle) == {m \in d : m.handle # receipt_handle}

\* QueueModel.fetchDLQMessages: at most Math.min(max_messages, 10) messages of
\* the dead-letter queue, any of them, in any order.
RECURSIVE Orderings(_)
Orderings(S) ==
    IF S = {} THEN {<<>>}
    ELSE UNION {{<<m>> \o s : s \in Orderings(S \ {m})} : m \in S}

\* MaxNumberOfMessages of the ReceiveMessageCommand.
MaxNumberOfMessages(max_messages) == Min(max_messages, 10)

fetchDLQMessages(d, max_messages) ==
    UNION {Orderings(S) :
             S \in {T \in SUBSET d : Cardinality(T) <= MaxNumberOfMessages(max_messages)}}

SeqToBag(s) ==
    [m \in {s[i] : i \in DOMAIN s} |-> Cardinality({i \in DOMAIN s : s[i] = m})]

\* The batches the Lambda trigger may hand to handleSQSEvent: up to BatchSize
\* messages of the queue, in any order, none past its receive limit.
Batches(q) ==
    LET S == {m \in BagToSet(q) : m.rcv < MaxReceiveCount}
        n == Min(BatchSize, BagCardinality(q))
    IN  {s \in UNION {[1..k -> S] : k \in 1..n} :
            \A m \in S : Cardinality({i \in DOMAIN s : s[i] = m}) <= CopiesIn(m, q)}

\* ------------------------------------------------------------- outcomes
Return(status, error, result) ==
    [kind |-> "return", status |-> status, error |-> error, result |-> result]
Raise(error) ==
    [kind |-> "raise", status |-> FALSE, error |-> error, result |-> NoResult]
NoReturn == [kind |-> "none", status |-> FALSE, error |-> "", result |-> NoResult]

\* ------------------------------------------------------ ConsumerController
\* Line 29: updateExecution(execution_id, 'processing'), result_data and
\* retry_count left to their defaults.
ProcessingWrite(recs, execution_id) ==
    updateExecution(recs, execution_id, "processing", DefaultResultData, DefaultRetryCount)

\* Line 32: api_result = { message: `Action ${action} processed successfully` }.
ApiResult(action) == [kind |-> "output", msg |-> action]

\* A completed write that stores no result.
CompletedWriteWithoutResult(recs, execution_id, api_result) ==
    updateExecution(recs, execution_id, "completed", NoResult, DefaultRetryCount)

\* Line 35: updateExecution(execution_id, 'completed', api_result), retry_count
\* left to its default.
CompletedWrite(recs, execution_id, api_result) ==
    updateExecution(recs, execution_id, "completed", api_result, DefaultRetryCount)

\* Line 50: (execution?.retry_count || 0) + 1.
NextRetryCount(execution) ==
    (IF execution.exists THEN execution.retry_count ELSE 0) + 1

\* A failure write that stores the error with the retry transition too.
FailureWriteWithError(recs, execution_id, retry_count, message) ==
    IF retry_count >= MAX_RETRY_ATTEMPTS
    THEN updateExecution(recs, execution_id, "failed", ErrorResult(message), retry_count)
    ELSE updateExecution(recs, execution_id, "queued", ErrorResult(message), retry_count)

\* Lines 52-61: failed with {error} at the limit, queued without result below it.
FailureWrite(recs, execution_id, retry_count, message) ==
    IF retry_count >= MAX_RETRY_ATTEMPTS
    THEN updateExecution(recs, execution_id, "failed", ErrorResult(message), retry_count)
    ELSE updateExecution(recs, execution_id, "queued", NoResult, retry_count)

\* What one updateExecution call left in the item.
Written(recs, execution_id) ==
    [status |-> recs[execution_id].status,
     retry_count |-> recs[execution_id].retry_count,
     result |-> recs[execution_id].result]

\* The awaited calls of processMessage that may reject: one of the try block
\* and, once in the catch block, one of the catch block.
TryFaults == {"none", "update_processing", "log_processing",
              "update_completed", "log_completed"}
CatchFaults == {"none", "get", "update", "log"}
FaultPaths ==
    {<<"none", "none">>} \cup ((TryFaults \ {"none"}) \X CatchFaults)

\* Lines 27-44, as far as the call f that rejects: the store, the writes made,
\* the log and the error caught ("" when the block ran to its return).
TryBlock(recs, lg, message, f) ==
    LET id == message.execution_id
        r1 == ProcessingWrite(recs, id)
        w1 == <<Written(r1, id)>>
        l1 == writeLog(lg, id, "info", "Processing")
        r2 == CompletedWrite(r1, id, ApiResult(message.action))
        w2 == Append(w1, Written(r2, id))
        l2 == writeLog(l1, id, "info", "Processing completed successfully")
    IN  IF f = "update_processing"
        THEN [records |-> recs, writes |-> <<>>, logs |-> lg, error |-> StoreError]
        ELSE IF f = "log_processing"
        THEN [records |-> r1, writes |-> w1, logs |-> lg, error |-> LogError]
        ELSE IF f = "update_completed"
        THEN [records |-> r1, writes |-> w1, logs |-> l1, error |-> StoreError]
        ELSE IF f = "log_completed"
        THEN [records |-> r2, writes |-> w2, logs |-> l1, error |-> LogError]
        ELSE [records |-> r2, writes |-> w2, logs |-> l2, error |-> ""]

\* Lines 45-64 after the try block t caught t.error, as far as the call g that
\* rejects; the block ends by raising in every case.
CatchBlock(t, message, g) ==
    LET id == message.execution_id
        execution == getExecution(t.records, id)
        retry_count == NextRetryCount(execution)
        r3 == FailureWrite(t.records, id, retry_count, t.error)
        w3 == Append(t.writes, Written(r3, id))
        l3 == IF retry_count >= MAX_RETRY_ATTEMPTS
              THEN writeLog(t.logs, id, "error", "Processing failed")
              ELSE writeLog(t.logs, id, "warning", "Processing failed, retry")
    IN  IF g \in {"get", "update"}
        THEN [records |-> t.records, writes |-> t.writes, logs |-> t.logs,
              outcome |-> Raise(StoreError)]
        ELSE IF g = "log"
        THEN [records |-> r3, writes |-> w3, logs |-> t.logs,
              outcome |-> Raise(LogError)]
        ELSE [records |-> r3, writes |-> w3, logs |-> l3,
              outcome |-> Raise(t.error)]

\* ConsumerController.processMessage(message) with the calls f and g rejecting:
\* the store and log it leaves, what it returns or raises, and, for the
\* record of the run, the item before and after and the writes in order.
processMessage(recs, lg, message, f, g) ==
    LET id == message.execution_id
        t == TryBlock(recs, lg, message, f)
        c == IF t.error = ""
             THEN [records |-> t.records, writes |-> t.writes, logs |-> t.logs,
                   outcome |-> Return(TRUE, "", ApiResult(message.action))]
             ELSE CatchBlock(t, message, g)
    IN  [records |-> c.records, logs |-> c.logs, outcome |-> c.outcome,
         run |-> [execution_id |-> id, action |-> message.action,
                  fault |-> f, catch_fault |-> IF f = "none" THEN "none" ELSE g,
                  before |-> recs[id], after |-> c.records[id],
                  writes |-> c.writes, outcome |-> c.outcome]]

ProcessOutcomes(recs, lg, message) ==
    {processMessage(recs, lg, message, p[1], p[2]) : p \in FaultPaths}

\* handleSQSEvent(event) from record i of the batch on: the records are
\* processed in order, and the first error is thrown again at once.
RECURSIVE handleSQSEvent(_, _, _, _, _)
handleSQSEvent(recs, lg, runs, batch, i) ==
    IF i > Len(batch)
    THEN {[records |-> recs, logs |-> lg, runs |-> runs,
           ret |-> Return(TRUE, "", NoResult)]}
    ELSE UNION {
           IF o.outcome.kind = "raise"
           THEN {[records |-> o.records, logs |-> o.logs,
                  runs |-> Append(runs, o.run), ret |-> Raise(o.outcome.error)]}
           ELSE handleSQSEvent(o.records, o.logs, Append(runs, o.run), batch, i + 1)
           : o \in ProcessOutcomes(recs, lg,
                     [execution_id |-> batch[i].execution_id,
                      action |-> batch[i].action]) }

\* A handleConsumer that hands processMessage the id without the action.
handleConsumerWithoutAction(recs, lg, body, get_fault) ==
    LET execution == getExecution(recs, body.execution_id)
        Answer(ret, caught, from) ==
            {[records |-> recs, logs |-> lg, runs |-> <<>>, ret |-> ret,
              caught |-> caught, from |-> from]}
    IN  IF body.execution_id = Undefined
        THEN Answer(Return(FALSE, "Missing required field: execution_id", NoResult), "", "")
        ELSE IF get_fault
        THEN Answer(Return(FALSE, StoreError, NoResult), StoreError, "getExecution")
        ELSE IF ~execution.exists
        THEN Answer(Return(FALSE, NotFound, NoResult), "", "")
        ELSE { [records |-> o.records, logs |-> o.logs, runs |-> <<o.run>>,
                ret |-> IF o.outcome.kind = "raise"
                        THEN Return(FALSE, o.outcome.error, NoResult)
                        ELSE o.outcome,
                caught |-> IF o.outcome.kind = "raise" THEN o.outcome.error ELSE "",
                from |-> IF o.outcome.kind = "raise" THEN "processMessage" ELSE ""]
               : o \in ProcessOutcomes(recs, lg,
                         [execution_id |-> execution.execution_id,
                          action |-> NoAction]) }

\* ConsumerController.handleConsumer(body); get_fault says that the read of
\* the record rejects.
handleConsumer(recs, lg, body, get_fault) ==
    LET execution == getExecution(recs, body.execution_id)
        Answer(ret, caught, from) ==
            {[records |-> recs, logs |-> lg, runs |-> <<>>, ret |-> ret,
              caught |-> caught, from |-> from]}
    IN  IF body.execution_id = Undefined
        THEN Answer(Return(FALSE, "Missing required field: execution_id", NoResult), "", "")
        ELSE IF get_fault
        THEN Answer(Return(FALSE, StoreError, NoResult), StoreError, "getExecution")
        ELSE IF ~execution.exists
        THEN Answer(Return(FALSE, NotFound, NoResult), "", "")
        ELSE { [records |-> o.records, logs |-> o.logs, runs |-> <<o.run>>,
                ret |-> IF o.outcome.kind = "raise"
                        THEN Return(FALSE, o.outcome.error, NoResult)
                        ELSE o.outcome,
                caught |-> IF o.outcome.kind = "raise" THEN o.outcome.error ELSE "",
                from |-> IF o.outcome.kind = "raise" THEN "processMessage" ELSE ""]
               : o \in ProcessOutcomes(recs, lg,
                         [execution_id |-> execution.execution_id,
                          action |-> execution.action]) }

\* -------------------------------------------------------- ReplayController
\* A replayExecution without its catch block: the error reaches the caller.
ReplayRaised(execution_id, message) ==
    [kind |-> "raise", execution_id |-> execution_id, success |-> FALSE,
     error |-> message]

\* Lines 56-61 of replayExecution: the catch block's answer.
ReplayCaught(execution_id, message) ==
    [kind |-> "return", execution_id |-> execution_id, success |-> FALSE,
     error |-> message]

ReplaySucceeded(execution_id) ==
    [kind |-> "return", execution_id |-> execution_id, success |-> TRUE,
     error |-> ""]

\* Line 36: execution.payload || { action: execution.action }.
ReplayPayload(execution) ==
    IF execution.payload # NoAction THEN execution.payload ELSE execution.action

\* A reset that keeps the stored retry_count.
ReplayResetKeepsCount(recs, execution_id) ==
    updateExecution(recs, execution_id, "queued", NoResult, recs[execution_id].retry_count)

\* Line 44: updateExecution(execution_id, 'queued', null, 0).
ReplayReset(recs, execution_id) ==
    updateExecution(recs, execution_id, "queued", NoResult, 0)

ReplayFaults == {"none", "get", "send", "update", "log"}

\* ReplayController.replayExecution(execution_id) with the call f rejecting.
replayExecution(recs, q, lg, execution_id, f) ==
    LET execution == getExecution(recs, execution_id)
        q1 == sendToQueue(q, execution_id, ReplayPayload(execution))
        r1 == ReplayReset(recs, execution_id)
        l1 == writeLog(lg, execution_id, "info", "Execution replayed from DLQ")
        Out(rr, qq, ll, result) ==
            [records |-> rr, mainq |-> qq, logs |-> ll, result |-> result,
             item |-> [execution_id |-> execution_id,
                       fault |-> IF f = "get" \/ execution.exists THEN f ELSE "none",
                       before |-> recs[execution_id], after |-> rr[execution_id],
                       sent |-> MessagesFor(qq, execution_id) - MessagesFor(q, execution_id),
                       logged |-> Len(ll) - Len(lg), message |-> Sent(q, qq),
                       result |-> result, handle |-> 0, deleted |-> "none"]]
    IN  IF f = "get"
        THEN Out(recs, q, lg, ReplayCaught(execution_id, StoreError))
        ELSE IF ~execution.exists
        THEN Out(recs, q, lg, ReplayCaught(execution_id, NotFound))
        ELSE IF f = "send"
        THEN Out(recs, q, lg, ReplayCaught(execution_id, QueueError))
        ELSE IF f = "update"
        THEN Out(recs, q1, lg, ReplayCaught(execution_id, StoreError))
        ELSE IF f = "log"
        THEN Out(r1, q1, lg, ReplayCaught(execution_id, LogError))
        ELSE Out(r1, q1, l1, ReplaySucceeded(execution_id))

ReplayOutcomes(recs, q, lg, execution_id) ==
    {replayExecution(recs, q, lg, execution_id, f) : f \in ReplayFaults}

\* Lines 106-116 and 144-155: the counts and the per-item detail.
CountWhere(results, success) ==
    Cardinality({i \in DOMAIN results : results[i].success = success})

\* A summary that counts every item as replayed.
ReplaySummaryAllReplayed(total, results) ==
    Return(TRUE, "",
           [total |-> total, replayed |-> total,
            failed |-> CountWhere(results, FALSE), details |-> results])

ReplaySummary(total, results) ==
    Return(TRUE, "",
           [total |-> total, replayed |-> CountWhere(results, TRUE),
            failed |-> CountWhere(results, FALSE), details |-> results])

\* A loop that deletes whatever the replay reported.
DeleteWhateverReplay(result) == TRUE

\* Line 101: the dead-letter message is deleted when the replay reports success.
DeleteAfterReplay(result) == result.success

\* The loop of replayAllFromDLQ (lines 92-104) from message i on.  st is the
\* state so far; a rejected deleteFromDLQ, like an error raised by
\* replayExecution, leaves the loop and the function.
RECURSIVE ReplayDLQLoop(_, _, _)
ReplayDLQLoop(st, messages, i) ==
    IF i > Len(messages)
    THEN {[st EXCEPT !.ret = ReplaySummary(Len(messages), st.results)]}
    ELSE UNION {
           LET item == [o.item EXCEPT !.handle = messages[i].handle]
               next == [st EXCEPT !.records = o.records, !.mainq = o.mainq,
                                  !.logs = o.logs,
                                  !.results = Append(@, o.result)]
           IN  IF o.result.kind = "raise"
               THEN {[st EXCEPT !.records = o.records, !.mainq = o.mainq,
                                !.logs = o.logs, !.items = Append(@, item),
                                !.ret = Raise(o.result.error)]}
               ELSE IF DeleteAfterReplay(o.result)
               THEN ReplayDLQLoop(
                       [next EXCEPT !.dlq = deleteFromDLQ(@, messages[i].handle),
                                    !.items = Append(@, [item EXCEPT !.deleted = "ok"])],
                       messages, i + 1)
                    \cup
                    {[next EXCEPT !.items = Append(@, [item EXCEPT !.deleted = "rejected"]),
                                  !.ret = Raise(QueueError)]}
               ELSE ReplayDLQLoop([next EXCEPT !.items = Append(@, item)],
                                  messages, i + 1)
           : o \in ReplayOutcomes(st.records, st.mainq, st.logs,
                                  messages[i].execution_id) }

\* A loop over body.execution_ids that ends with the first id whose replay
\* does not succeed.
RECURSIVE ReplayIdsLoopUntilFailure(_, _, _)
ReplayIdsLoopUntilFailure(st, execution_ids, i) ==
    IF i > Len(execution_ids)
    THEN {[st EXCEPT !.ret = ReplaySummary(Len(execution_ids), st.results)]}
    ELSE UNION {
           IF o.result.kind = "raise"
           THEN {[st EXCEPT !.records = o.records, !.mainq = o.mainq,
                            !.logs = o.logs, !.items = Append(@, o.item),
                            !.ret = Raise(o.result.error)]}
           ELSE ReplayIdsLoopUntilFailure(
                   [st EXCEPT !.records = o.records, !.mainq = o.mainq,
                              !.logs = o.logs, !.results = Append(@, o.result),
                              !.items = Append(@, o.item)],
                   execution_ids,
                   IF o.result.success THEN i + 1 ELSE Len(execution_ids) + 1)
           : o \in ReplayOutcomes(st.records, st.mainq, st.logs, execution_ids[i]) }

\* The loop of handleReplay over body.execution_ids (lines 139-143).
RECURSIVE ReplayIdsLoop(_, _, _)
ReplayIdsLoop(st, execution_ids, i) ==
    IF i > Len(execution_ids)
    THEN {[st EXCEPT !.ret = ReplaySummary(Len(execution_ids), st.results)]}
    ELSE UNION {
           IF o.result.kind = "raise"
           THEN {[st EXCEPT !.records = o.records, !.mainq = o.mainq,
                            !.logs = o.logs, !.items = Append(@, o.item),
                            !.ret = Raise(o.result.error)]}
           ELSE ReplayIdsLoop(
                   [st EXCEPT !.records = o.records, !.mainq = o.mainq,
                              !.logs = o.logs, !.results = Append(@, o.result),
                              !.items = Append(@, o.item)],
                   execution_ids, i + 1)
           : o \in ReplayOutcomes(st.records, st.mainq, st.logs, execution_ids[i]) }

\* A replayAllFromDLQ that receives once more when its loop is done, and
\* replays what is still in the dead-letter queue.
replayAllUntilDrained(st, fetch_fault, messages) ==
    LET first == ReplayDLQLoop([st EXCEPT !.fetches = 1, !.messages = messages,
                                          !.asked = MaxNumberOfMessages(DLQ_FETCH_MAX)],
                               messages, 1)
    IN  UNION {LET rest == CHOOSE r \in Orderings(s.dlq) : TRUE
               IN  ReplayDLQLoop([s EXCEPT !.fetches = 2, !.messages = @ \o rest],
                                 s.messages \o rest, Len(s.messages) + 1)
               : s \in first}

\* ReplayController.replayAllFromDLQ(): the fetch, which rejects or hands over
\* messages; the answer for an empty fetch; the loop.
replayAllFromDLQ(st, fetch_fault, messages) ==
    LET fetched == [st EXCEPT !.fetches = 1,
                              !.asked = MaxNumberOfMessages(DLQ_FETCH_MAX)]
    IN  IF fetch_fault
        THEN {[fetched EXCEPT !.ret = Raise(QueueError)]}
        ELSE IF Len(messages) = 0
        THEN {[fetched EXCEPT
                 !.ret = Return(TRUE, "", [total |-> 0, replayed |-> 0, failed |-> 0,
                                           message |-> "No messages in DLQ"])]}
        ELSE ReplayDLQLoop([fetched EXCEPT !.messages = messages], messages, 1)

\* A handleReplay that goes to the dead-letter queue whatever the body holds.
handleReplayFromDLQ(st, body, fetch_fault, messages) ==
    {IF s.ret.kind = "raise"
     THEN [s EXCEPT !.ret = Return(FALSE, s.ret.error, NoResult)]
     ELSE s
     : s \in replayAllFromDLQ(st, fetch_fault, messages)}

\* ReplayController.handleReplay(body): the listed ids when body.execution_ids
\* is an array, the dead-letter queue otherwise; an error raised inside is
\* answered with status false.
handleReplay(st, body, fetch_fault, messages) ==
    LET ran == IF body.has_ids
               THEN ReplayIdsLoop(st, body.execution_ids, 1)
               ELSE replayAllFromDLQ(st, fetch_fault, messages)
    IN  {IF s.ret.kind = "raise"
         THEN [s EXCEPT !.ret = Return(FALSE, s.ret.error, NoResult),
                        !.caught = s.ret.error,
                        !.from = IF body.has_ids THEN "replayExecution"
                                 ELSE "replayAllFromDLQ"]
         ELSE s
         : s \in ran}

\* ------------------------------------------------------ ProducerController
\* A createAndQueueExecution that undoes what it did when one of the two calls
\* rejects.
createAndQueueWithRollback(recs, q, lg, execution_id, payload, create_ok, send_ok, log_ok) ==
    IF create_ok /\ send_ok
    THEN {[records |-> [recs EXCEPT ![execution_id] = createExecution(execution_id, payload)],
           mainq |-> sendToQueue(q, execution_id, payload),
           logs |-> IF log_ok THEN writeLog(lg, execution_id, "info", "Execution queued")
                    ELSE lg,
           ret |-> Return(TRUE, "", [execution_id |-> execution_id])]}
    ELSE {[records |-> recs, mainq |-> q, logs |-> lg, ret |-> Raise(e)]
          : e \in {StoreError : x \in {1} \ {IF create_ok THEN 1 ELSE 0}}
                  \cup {QueueError : x \in {1} \ {IF send_ok THEN 1 ELSE 0}}}

\* ProducerController.createAndQueueExecution(payload): createExecution and
\* sendToQueue are started together under Promise.all, so each has its effect
\* whether or not the other rejects; the log write is started only when both
\* succeeded, and is not awaited.
createAndQueueExecution(recs, q, lg, execution_id, payload, create_ok, send_ok, log_ok) ==
    LET r1 == IF create_ok
              THEN [recs EXCEPT ![execution_id] = createExecution(execution_id, payload)]
              ELSE recs
        q1 == IF send_ok THEN sendToQueue(q, execution_id, payload) ELSE q
        l1 == IF create_ok /\ send_ok /\ log_ok
              THEN writeLog(lg, execution_id, "info", "Execution queued")
              ELSE lg
        Out(ret) == [records |-> r1, mainq |-> q1, logs |-> l1, ret |-> ret]
    IN  IF create_ok /\ send_ok
        THEN {Out(Return(TRUE, "", [execution_id |-> execution_id]))}
        ELSE {Out(Raise(StoreError)) : x \in {1} \ {IF create_ok THEN 1 ELSE 0}}
             \cup {Out(Raise(QueueError)) : x \in {1} \ {IF send_ok THEN 1 ELSE 0}}

\* VALID_ACTIONS, and the text VALID_ACTIONS.join(', ') gives.
VALID_ACTIONS == {"get-status", "send-slack-message", "send-slack-formatted"}
InvalidActionError ==
    "Invalid action. Must be one of: get-status, send-slack-message, send-slack-formatted"

\* JavaScript truthiness of a field: a missing field and the empty string
\* are falsy.
Truthy(v) == v # NoAction /\ v # ""

Valid == [valid |-> TRUE, error |-> ""]
Invalid(error) == [valid |-> FALSE, error |-> error]

\* A validateAction that does not look at the fields of the action.
validateActionOnly(payload) ==
    IF ~Truthy(payload.action)
    THEN Invalid("Missing required field: action")
    ELSE IF payload.action \notin VALID_ACTIONS
    THEN Invalid(InvalidActionError)
    ELSE Valid

\* ProducerController.validateAction(payload).
validateAction(payload) ==
    IF ~Truthy(payload.action)
    THEN Invalid("Missing required field: action")
    ELSE IF payload.action \notin VALID_ACTIONS
    THEN Invalid(InvalidActionError)
    ELSE IF payload.action = "get-status" /\ payload.execution_id = Undefined
    THEN Invalid("Missing required field: execution_id (for get-status action)")
    ELSE IF payload.action = "send-slack-message" /\ ~Truthy(payload.message)
    THEN Invalid("Missing required field: message (for send-slack-message action)")
    ELSE IF payload.action = "send-slack-formatted" /\ ~Truthy(payload.payload)
    THEN Invalid("Missing required field: payload (for send-slack-formatted action)")
    ELSE Valid

\* ProducerController.getExecutionStatus(execution_id); get_fault says that
\* the read rejects.
getExecutionStatus(recs, execution_id, get_fault) ==
    LET execution == getExecution(recs, execution_id)
    IN  IF get_fault
        THEN Raise(StoreError)
        ELSE IF ~execution.exists
        THEN Return(FALSE, NotFound, NoResult)
        ELSE Return(TRUE, "",
                    [execution_id |-> execution.execution_id,
                     status |-> execution.status, action |-> execution.action,
                     retry_count |-> execution.retry_count,
                     result |-> execution.result])

\* SlackService.sendMessage and sendFormattedMessage: the webhook of the
\* request or else of the environment; f says what goes wrong: no webhook in
\* the environment, the fetch rejecting, a response that is not ok.
SlackNotConfigured == "Slack webhook URL not configured"
SlackApiError == "Slack API error"
FetchError == "fetch error"

SlackSend(webhookUrl, f, sent_message) ==
    IF ~Truthy(webhookUrl) /\ f = "env_url"
    THEN Raise(SlackNotConfigured)
    ELSE IF f = "fetch"
    THEN Raise(FetchError)
    ELSE IF f = "response"
    THEN Raise(SlackApiError)
    ELSE Return(TRUE, "", [status |-> "ok", message |-> sent_message])

sendMessage(message, webhookUrl, f) ==
    SlackSend(webhookUrl, f, "Message sent successfully")

sendFormattedMessage(payload, webhookUrl, f) ==
    SlackSend(webhookUrl, f, "Formatted message sent successfully")

ProducerFaults == {"none", "get", "env_url", "fetch", "response", "create", "send"}

\* A handleProducer that queues an execution for a valid request before it
\* answers.
handleProducerQueueing(recs, q, lg, body, execution_id, f) ==
    IF validateAction(body).valid
    THEN {[records |-> o.records, mainq |-> o.mainq, logs |-> o.logs,
           ret |-> Return(TRUE, "", NoResult), caught |-> "", from |-> "",
           submitted |-> TRUE]
          : o \in createAndQueueExecution(recs, q, lg, execution_id, body.action,
                                           TRUE, TRUE, TRUE)}
    ELSE {[records |-> recs, mainq |-> q, logs |-> lg,
           ret |-> Return(FALSE, validateAction(body).error, NoResult),
           caught |-> "", from |-> "", submitted |-> FALSE]}

\* A handleProducer without its try and catch.
handleProducerUncaught(recs, q, lg, body, execution_id, f) ==
    LET validation == validateAction(body)
        called == IF body.action = "get-status"
                  THEN getExecutionStatus(recs, body.execution_id, f = "get")
                  ELSE SlackSend(body.webhookUrl, f, "sent")
    IN  {[records |-> recs, mainq |-> q, logs |-> lg,
          ret |-> IF ~validation.valid
                  THEN Return(FALSE, validation.error, NoResult)
                  ELSE called,
          caught |-> "", from |-> "", submitted |-> FALSE]}

\* ProducerController.handleProducer(body) with the call f going wrong;
\* execution_id is the id uuidv4 would hand out.
handleProducer(recs, q, lg, body, execution_id, f) ==
    LET validation == validateAction(body)
        Same(ret, caught, from) ==
            {[records |-> recs, mainq |-> q, logs |-> lg, ret |-> ret,
              caught |-> caught, from |-> from, submitted |-> FALSE]}
        Answer(called, from) ==
            IF called.kind = "raise"
            THEN Same(Return(FALSE, called.error, NoResult), called.error, from)
            ELSE Same(called, "", "")
    IN  IF ~validation.valid
        THEN Same(Return(FALSE, validation.error, NoResult), "", "")
        ELSE IF body.action = "get-status"
        THEN Answer(getExecutionStatus(recs, body.execution_id, f = "get"),
                    "getExecutionStatus")
        ELSE IF body.action = "send-slack-message"
        THEN Answer(sendMessage(body.message, body.webhookUrl, f), "sendMessage")
        ELSE IF body.action = "send-slack-formatted"
        THEN Answer(sendFormattedMessage(body.payload, body.webhookUrl, f),
                    "sendFormattedMessage")
        ELSE {[records |-> o.records, mainq |-> o.mainq, logs |-> o.logs,
               ret |-> IF o.ret.kind = "raise"
                       THEN Return(FALSE, o.ret.error, NoResult) ELSE o.ret,
               caught |-> IF o.ret.kind = "raise" THEN o.ret.error ELSE "",
               from |-> IF o.ret.kind = "raise" THEN "createAndQueueExecution" ELSE "",
               submitted |-> TRUE]
              : o \in createAndQueueExecution(recs, q, lg, execution_id, body.action,
                                               f # "create", f # "send", TRUE)}

\* The stored attributes of an item no update names: updateExecution SETs
\* status, updated_at, retry_count, the index keys and result only.
Created(execution) ==
    [execution_id |-> execution.execution_id, action |-> execution.action,
     payload |-> execution.payload]

\* ------------------------------------------------------- the Lambda handler
\* A Lambda event, as far as detectEventSource and routeRequest read it:
\* event.Records[0].eventSource, whether requestContext or httpMethod is set,
\* the path, and whether event.body parses as JSON.
NoPath == ""
NoEvent ==
    [event_source |-> "none", http |-> FALSE, path |-> NoPath, body_ok |-> TRUE]
ApiEvent(path) ==
    [event_source |-> "none", http |-> TRUE, path |-> path, body_ok |-> TRUE]

\* createResponse(status_code, body).
createResponse(status_code, body) == [statusCode |-> status_code, body |-> body]

\* detectEventSource(event).
detectEventSource(event) ==
    IF event.event_source = "aws:sqs" THEN "sqs"
    ELSE IF event.http \/ event.path # NoPath THEN "apigateway"
    ELSE "unknown"

SyntaxError == "Unexpected token in JSON"
InvalidRoute == "Invalid route. Available routes: /producer, /consumer, /replay"

\* routeRequest(event): the body is parsed, then the path decides; reply is
\* what the controller of the route answers.
routeRequest(event, reply) ==
    IF ~event.body_ok
    THEN Raise(SyntaxError)
    ELSE IF event.path \in {"/producer", "/consumer", "/replay"}
    THEN reply
    ELSE Return(FALSE, InvalidRoute, NoResult)

\* An API Gateway handler that answers 200 whatever the reply.
handleAPIGatewayEventAlwaysOk(routed) ==
    IF routed.kind = "raise"
    THEN createResponse(200, Return(FALSE, routed.error, NoResult))
    ELSE createResponse(200, routed)

\* handleAPIGatewayEvent(event), routed being what routeRequest(event)
\* returned or raised.
handleAPIGatewayEvent(routed) ==
    IF routed.kind = "raise"
    THEN createResponse(500, Return(FALSE, routed.error, NoResult))
    ELSE createResponse(IF routed.status THEN 200 ELSE 400, routed)

\* exports.handler(event) for an event that is not an SQS event.
handler(event, reply) ==
    IF detectEventSource(event) = "apigateway"
    THEN handleAPIGatewayEvent(routeRequest(event, reply))
    ELSE createResponse(400, Return(FALSE, "Unknown event source", NoResult))

\* ------------------------------------------------------------- the system
NoInv ==
    [op |-> "none", ret |-> NoReturn, execution_id |-> Undefined,
     batch |-> <<>>, runs |-> <<>>,
     has_ids |-> FALSE, execution_ids |-> <<>>, fetches |-> 0,
     messages |-> <<>>, items |-> <<>>,
     body |-> NoBody, caught |-> "", from |-> "", asked |-> 0,
     event |-> NoEvent, code |-> 0, returned |-> {}, replaced |-> NoRecord,
     resolved |-> [create |-> FALSE, send |-> FALSE]]

\* A failed attempt: the try block of processMessage raised and the catch block
\* made all its calls.
FailedAttempt(run) == run.fault # "none" /\ run.catch_fault = "none"

\* hist[id]: how many processMessage calls on id have ended since its record
\* was created, when every one of them was a failed attempt and nothing else
\* wrote the record; Void otherwise.
Void == MAX_RETRY_ATTEMPTS + 1
StreakAfter(n, failed) == IF failed /\ n < MAX_RETRY_ATTEMPTS THEN n + 1 ELSE Void

RECURSIVE AfterRuns(_, _, _)
AfterRuns(h, runs, i) ==
    IF i > Len(runs) THEN h
    ELSE AfterRuns([h EXCEPT ![runs[i].execution_id] =
                        StreakAfter(@, FailedAttempt(runs[i]))],
                   runs, i + 1)

AfterReplays(h, items) ==
    [id \in ExecIds |->
        IF \E i \in DOMAIN items :
              items[i].execution_id = id /\ items[i].after # items[i].before
        THEN Void ELSE h[id]]

Idle == inv.op = "none"

Init ==
    /\ records = [id \in ExecIds |-> NoRecord]
    /\ mainq = EmptyBag
    /\ dlq = {}
    /\ logs = <<>>
    /\ next_id = 1
    /\ inv = NoInv
    /\ hist = [id \in ExecIds |-> Void]

\* A direct call of createAndQueueExecution(payload), while uuidv4 has an id
\* among ids to hand out.
SubmitWith(ids) ==
    /\ Idle
    /\ next_id \in ids
    /\ BagCardinality(mainq) < MaxQueue
    /\ \E payload \in Actions, create_ok \in BOOLEAN, send_ok \in BOOLEAN,
          log_ok \in BOOLEAN :
         \E o \in createAndQueueExecution(records, mainq, logs, next_id, payload,
                                          create_ok, send_ok, log_ok) :
            /\ records' = o.records
            /\ mainq' = o.mainq
            /\ logs' = o.logs
            /\ inv' = [NoInv EXCEPT !.op = "submit", !.ret = o.ret,
                                    !.execution_id = next_id,
                                    !.body = [NoBody EXCEPT !.action = payload],
                                    !.resolved = [create |-> create_ok,
                                                  send |-> send_ok]]
            /\ hist' = IF create_ok THEN [hist EXCEPT ![next_id] = 0] ELSE hist
    /\ next_id' = next_id + 1
    /\ UNCHANGED dlq

Submit == SubmitWith(NewIds)

\* A batch may be handed over when each record it names can take its attempts.
RoomForAttempts(ids, n) ==
    \A id \in ids : records[id].retry_count + n <= MaxRetryCount

\* When the handler raised, every message of the batch is visible again, one
\* receive older; when it returned, the batch is deleted.
Redelivered(batch) ==
    SeqToBag([i \in DOMAIN batch |-> [batch[i] EXCEPT !.rcv = @ + 1]])

\* The positions of the batch whose messages the queue makes visible again:
\* all of them when the handler raised, since it reports no item failures of
\* its own, none when it returned { batchItemFailures: [] }.
ReturnedToQueue(batch, ret) ==
    IF ret.kind = "raise" THEN DOMAIN batch ELSE {}

\* The Lambda SQS trigger hands a batch of messages to handleSQSEvent.
DeliverBatch ==
    /\ Idle
    /\ \E batch \in Batches(mainq) :
         /\ RoomForAttempts({batch[i].execution_id : i \in DOMAIN batch}, Len(batch))
         /\ \E o \in handleSQSEvent(records, logs, <<>>, batch, 1) :
              /\ records' = o.records
              /\ logs' = o.logs
              /\ mainq' = IF o.ret.kind = "raise"
                          THEN (mainq (-) SeqToBag(batch)) (+) Redelivered(batch)
                          ELSE mainq (-) SeqToBag(batch)
              /\ inv' = [NoInv EXCEPT !.op = "sqs", !.ret = o.ret,
                                      !.batch = batch, !.runs = o.runs,
                                      !.returned = ReturnedToQueue(batch, o.ret)]
              /\ hist' = AfterRuns(hist, o.runs, 1)
    /\ UNCHANGED <<dlq, next_id>>

\* A request to /consumer: handleConsumer(body), with or without execution_id,
\* for an id whose item, if there is one, was put by createExecution.
HandleConsumer ==
    /\ Idle
    /\ \E id \in ExecIds \cup {Undefined}, get_fault \in BOOLEAN :
         /\ id # Undefined =>
               /\ records[id].exists => records[id].execution_id = id
               /\ RoomForAttempts({id}, 1)
         /\ \E o \in handleConsumer(records, logs, [execution_id |-> id], get_fault) :
              /\ records' = o.records
              /\ logs' = o.logs
              /\ inv' = [NoInv EXCEPT !.op = "consumer", !.ret = o.ret,
                                      !.execution_id = id, !.runs = o.runs,
                                      !.caught = o.caught, !.from = o.from,
                                      !.event = ApiEvent("/consumer"),
                                      !.code = handler(ApiEvent("/consumer"),
                                                       o.ret).statusCode]
              /\ hist' = AfterRuns(hist, o.runs, 1)
    /\ UNCHANGED <<mainq, dlq, next_id>>

IdLists(n) == UNION {[1..k -> ExecIds] : k \in 0..n}

ReplayStart ==
    [records |-> records, mainq |-> mainq, dlq |-> dlq, logs |-> logs,
     results |-> <<>>, items |-> <<>>, messages |-> <<>>, fetches |-> 0,
     ret |-> NoReturn, caught |-> "", from |-> "", asked |-> 0]

ReplayDone(s, body) ==
    /\ records' = s.records
    /\ mainq' = s.mainq
    /\ dlq' = s.dlq
    /\ logs' = s.logs
    /\ inv' = [NoInv EXCEPT !.op = "replay", !.ret = s.ret,
                            !.has_ids = body.has_ids,
                            !.execution_ids = body.execution_ids,
                            !.fetches = s.fetches, !.messages = s.messages,
                            !.items = s.items, !.caught = s.caught, !.from = s.from,
                            !.asked = s.asked,
                            !.event = ApiEvent("/replay"),
                            !.code = handler(ApiEvent("/replay"), s.ret).statusCode]
    /\ hist' = AfterReplays(hist, s.items)
    /\ UNCHANGED next_id

\* A request to /replay with body.execution_ids.
HandleReplayIds ==
    /\ Idle
    /\ \E execution_ids \in IdLists(MaxQueue - BagCardinality(mainq)) :
         LET body == [has_ids |-> TRUE, execution_ids |-> execution_ids] IN
         \E s \in handleReplay(ReplayStart, body, FALSE, <<>>) :
            ReplayDone(s, body)

\* A request to /replay without it: one pass over the dead-letter queue.
HandleReplayAll ==
    /\ Idle
    /\ \E fetch_fault \in BOOLEAN, messages \in fetchDLQMessages(dlq, DLQ_FETCH_MAX) :
         LET body == [has_ids |-> FALSE, execution_ids |-> <<>>] IN
         /\ BagCardinality(mainq) + Len(messages) <= MaxQueue
         /\ \E s \in handleReplay(ReplayStart, body, fetch_fault, messages) :
              ReplayDone(s, body)

\* The redrive policy: a message received MaxReceiveCount times goes to the
\* dead-letter queue, under a handle of its own.
FreeHandle == CHOOSE h \in 1..MaxDLQ : \A d \in dlq : d.handle # h

Redrive ==
    /\ Idle
    /\ Cardinality(dlq) < MaxDLQ
    /\ \E m \in BagToSet(mainq) :
         /\ m.rcv >= MaxReceiveCount
         /\ mainq' = mainq (-) SetToBag({m})
         /\ dlq' = dlq \cup {[handle |-> FreeHandle, execution_id |-> m.execution_id,
                               action |-> m.action]}
    /\ UNCHANGED <<records, logs, next_id, inv, hist>>

\* The caller has its answer: the invocation is over.
End ==
    /\ ~Idle
    /\ inv' = NoInv
    /\ logs' = <<>>
    /\ UNCHANGED <<records, mainq, dlq, next_id, hist>>

Next ==
    \/ Submit
    \/ DeliverBatch
    \/ HandleConsumer
    \/ HandleReplayIds
    \/ HandleReplayAll
    \/ Redrive
    \/ End

Spec == Init /\ [][Next]_vars

\* The request bodies of /producer: every field missing, empty or set.
Bodies ==
    [action : {NoAction, "", "task"} \cup VALID_ACTIONS,
     execution_id : {Undefined} \cup ExecIds,
     message : {NoAction, "", "text"},
     payload : {NoAction, "blocks"},
     webhookUrl : {NoAction, "url"}]

\* A request to /producer: handleProducer(body).
HandleProducer ==
    /\ Idle
    /\ \E body \in Bodies, f \in ProducerFaults :
         \E o \in handleProducer(records, mainq, logs, body, next_id, f) :
            /\ records' = o.records
            /\ mainq' = o.mainq
            /\ logs' = o.logs
            /\ next_id' = IF o.submitted THEN next_id + 1 ELSE next_id
            /\ inv' = [NoInv EXCEPT !.op = "producer", !.ret = o.ret, !.body = body,
                                    !.caught = o.caught, !.from = o.from,
                                    !.event = ApiEvent("/producer"),
                                    !.code = handler(ApiEvent("/producer"),
                                                     o.ret).statusCode]
    /\ UNCHANGED <<dlq, hist>>

\* The events that reach no controller: not from the API Gateway, a path that
\* is no route, a body that does not parse.
OtherEvents ==
    {e \in [event_source : {"none", "aws:s3"}, http : BOOLEAN,
            path : {NoPath, "/producer", "/consumer", "/replay", "/status"},
            body_ok : BOOLEAN] :
       \/ detectEventSource(e) # "apigateway"
       \/ ~e.body_ok
       \/ e.path \notin {"/producer", "/consumer", "/replay"}}

HandleOtherEvent ==
    /\ Idle
    /\ \E event \in OtherEvents :
         LET response == handler(event, NoReturn) IN
         inv' = [NoInv EXCEPT !.op = "other", !.event = event,
                              !.ret = response.body, !.code = response.statusCode]
    /\ UNCHANGED <<records, mainq, dlq, logs, next_id, hist>>

\* The three routes of the API, the other events, and direct submissions.
NextApi ==
    \/ Submit
    \/ HandleProducer
    \/ HandleOtherEvent
    \/ HandleConsumer
    \/ HandleReplayIds
    \/ HandleReplayAll
    \/ End

SpecApi == Init /\ [][NextApi]_vars

\* Submissions one after another, each record worked on through /consumer.
SubmitAgain == SubmitWith(ExecIds)

NextSubmit ==
    \/ SubmitAgain
    \/ HandleConsumer
    \/ End

SpecSubmit == Init /\ [][NextSubmit]_vars

\* The invocation in inv met no rejected call of the store, the queues or the
\* log.
FaultFree ==
    /\ \A run \in {inv.runs[i] : i \in DOMAIN inv.runs} : run.fault = "none"
    /\ \A item \in {inv.items[i] : i \in DOMAIN inv.items} : item.fault = "none"
    /\ inv.caught = ""
    /\ inv.op = "submit" => inv.ret.status

\* The system while no call rejects, the SQS trigger delivering every message
\* that stays in the queue and every invocation coming to its end.
SubmitOk == SubmitWith(ExecIds) /\ FaultFree'
DeliverOk == DeliverBatch /\ FaultFree'
ConsumerOk == HandleConsumer /\ FaultFree'
ReplayIdsOk == HandleReplayIds /\ FaultFree'
ReplayAllOk == HandleReplayAll /\ FaultFree'

NextFair ==
    \/ SubmitOk
    \/ DeliverOk
    \/ ConsumerOk
    \/ ReplayIdsOk
    \/ ReplayAllOk
    \/ End

\* A delivery whose batch holds a message of execution_id.
DeliverOkOf(execution_id) ==
    /\ DeliverOk
    /\ \E i \in DOMAIN inv'.batch : inv'.batch[i].execution_id = execution_id

SpecFair ==
    /\ Init
    /\ [][NextFair]_vars
    /\ \A id \in ExecIds : SF_vars(DeliverOkOf(id))
    /\ WF_vars(End)

\* ------------------------------------------------- operations in progress
\* The awaited calls of one invocation are separate requests to the store and
\* the queue; another Lambda invocation may run between two of them.  While
\* inv.op is "replaying" or "submitting" the invocation in inv has made its
\* first call and not yet its second.  No call rejects.

\* replayExecution as far as line 41: the record is read and the message sent.
ReplaySendStep ==
    /\ Idle
    /\ BagCardinality(mainq) < MaxQueue
    /\ \E id \in ExecIds :
         /\ getExecution(records, id).exists
         /\ mainq' = sendToQueue(mainq, id, ReplayPayload(getExecution(records, id)))
         /\ inv' = [NoInv EXCEPT !.op = "replaying", !.execution_id = id]
    /\ UNCHANGED <<records, dlq, logs, next_id, hist>>

\* replayExecution from line 44 on: the reset and the log entry.
ReplayResetStep ==
    /\ inv.op = "replaying"
    /\ records' = ReplayReset(records, inv.execution_id)
    /\ logs' = writeLog(logs, inv.execution_id, "info", "Execution replayed from DLQ")
    /\ inv' = [inv EXCEPT !.op = "replayed",
                          !.replaced = records[inv.execution_id],
                          !.ret = Return(TRUE, "", NoResult)]
    /\ hist' = [hist EXCEPT ![inv.execution_id] = Void]
    /\ UNCHANGED <<mainq, dlq, next_id>>

\* createAndQueueExecution, lines 102-105: Promise.all starts createExecution
\* and sendToQueue together, and either request may be served first.
SubmitCreateFirst ==
    /\ Idle
    /\ next_id \in ExecIds
    /\ BagCardinality(mainq) < MaxQueue
    /\ \E payload \in Actions :
         /\ records' = [records EXCEPT ![next_id] = createExecution(next_id, payload)]
         /\ inv' = [NoInv EXCEPT !.op = "submitting", !.execution_id = next_id,
                                 !.body = [NoBody EXCEPT !.action = payload],
                                 !.resolved = [create |-> TRUE, send |-> FALSE]]
    /\ hist' = [hist EXCEPT ![next_id] = 0]
    /\ next_id' = next_id + 1
    /\ UNCHANGED <<mainq, dlq, logs>>

SubmitSendFirst ==
    /\ Idle
    /\ next_id \in ExecIds
    /\ BagCardinality(mainq) < MaxQueue
    /\ \E payload \in Actions :
         /\ mainq' = sendToQueue(mainq, next_id, payload)
         /\ inv' = [NoInv EXCEPT !.op = "submitting", !.execution_id = next_id,
                                 !.body = [NoBody EXCEPT !.action = payload],
                                 !.resolved = [create |-> FALSE, send |-> TRUE]]
    /\ next_id' = next_id + 1
    /\ UNCHANGED <<records, dlq, logs, hist>>

\* The other request of the two is served, and createAndQueueExecution
\* returns the execution id.
SubmitDone ==
    [inv EXCEPT !.op = "submit",
                !.resolved = [create |-> TRUE, send |-> TRUE],
                !.ret = Return(TRUE, "", [execution_id |-> inv.execution_id])]

SubmitThenSend ==
    /\ inv.op = "submitting"
    /\ inv.resolved.create
    /\ mainq' = sendToQueue(mainq, inv.execution_id, inv.body.action)
    /\ inv' = SubmitDone
    /\ logs' = writeLog(logs, inv.execution_id, "info", "Execution queued")
    /\ UNCHANGED <<records, dlq, next_id, hist>>

SubmitThenCreate ==
    /\ inv.op = "submitting"
    /\ inv.resolved.send
    /\ records' = [records EXCEPT ![inv.execution_id] =
                       createExecution(inv.execution_id, inv.body.action)]
    /\ inv' = [SubmitDone EXCEPT !.replaced = records[inv.execution_id]]
    /\ logs' = writeLog(logs, inv.execution_id, "info", "Execution queued")
    /\ hist' = [hist EXCEPT ![inv.execution_id] = 0]
    /\ UNCHANGED <<mainq, dlq, next_id>>

\* The SQS trigger hands a batch to handleSQSEvent while the invocation in inv
\* is between its two calls; the handler runs to its end.
DeliverMeanwhile ==
    /\ inv.op \in {"replaying", "submitting"}
    /\ \E batch \in Batches(mainq) :
         \E o \in handleSQSEvent(records, <<>>, <<>>, batch, 1) :
            /\ \A k \in DOMAIN o.runs : o.runs[k].fault = "none"
            /\ records' = o.records
            /\ mainq' = mainq (-) SeqToBag(batch)
            /\ hist' = AfterRuns(hist, o.runs, 1)
    /\ UNCHANGED <<dlq, logs, next_id, inv>>

\* Replay by steps, with submissions and deliveries.
NextReplayRace ==
    \/ SubmitOk
    \/ ReplaySendStep
    \/ ReplayResetStep
    \/ DeliverOk
    \/ DeliverMeanwhile
    \/ End

SpecReplayRace == Init /\ [][NextReplayRace]_vars

\* Submission by steps, with deliveries and requests to /consumer.
NextSubmitRace ==
    \/ SubmitCreateFirst
    \/ SubmitSendFirst
    \/ SubmitThenSend
    \/ SubmitThenCreate
    \/ DeliverOk
    \/ ConsumerOk
    \/ DeliverMeanwhile
    \/ End

SpecSubmitRace == Init /\ [][NextSubmitRace]_vars

\* Every operation that writes a record, on two executions.
NextRecords ==
    \/ SubmitAgain
    \/ HandleConsumer
    \/ HandleReplayIds
    \/ End

SpecRecords == Init /\ [][NextRecords]_vars

\* ------------------------------------------------------------ observations
\* The processMessage runs and the replayExecution calls of the invocation
\* that has just ended.
ConsumerRuns == {inv.runs[i] : i \in DOMAIN inv.runs}
ReplayItems == {inv.items[i] : i \in DOMAIN inv.items}
ReplayAllPass == inv.op = "replay" /\ ~inv.has_ids

\* Status, retry_count and result of the item just before write k of a run.
BeforeWrite(run, k) ==
    IF k = 1
    THEN [status |-> run.before.status, retry_count |-> run.before.retry_count,
          result |-> run.before.result]
    ELSE run.writes[k - 1]

StatusesWritten(run) == [k \in DOMAIN run.writes |-> run.writes[k].status]

\* The error message of the step of replayExecution that rejects.
ReplayFaultMessage(f) ==
    IF f = "send" THEN QueueError ELSE IF f = "log" THEN LogError ELSE StoreError

\* ------------------------------------------------------------------ claims
\* C1: an execution created with status queued and retry_count 0, on which
\* processMessage has run three times in a row, each a failed attempt, with no
\* replay in between, is stored with status failed and retry_count 3.
C1_ThreeFailuresStoreFailed ==
    \A id \in ExecIds :
        hist[id] = 3 =>
            /\ records[id].status = "failed"
            /\ records[id].retry_count = 3

\* C2: every failed attempt of processMessage stores the retry_count the record
\* held before the attempt plus exactly 1, with status queued when that count
\* is below 3 and failed when it is 3 or more.
C2_FailedAttemptAddsOne ==
    \A run \in ConsumerRuns :
        (run.before.exists /\ FailedAttempt(run)) =>
            /\ run.after.retry_count = run.before.retry_count + 1
            /\ run.after.status =
                   IF run.before.retry_count + 1 < 3 THEN "queued" ELSE "failed"

\* C3: no write of a consumer operation lowers the stored retry_count, and the
\* writes of processing and of completed leave it at its previous value.
C3_ConsumerNeverLowersRetryCount ==
    \A run \in ConsumerRuns :
        run.before.exists =>
            \A k \in DOMAIN run.writes :
                /\ run.writes[k].retry_count >= BeforeWrite(run, k).retry_count
                /\ run.writes[k].status \in {"processing", "completed"} =>
                       run.writes[k].retry_count = BeforeWrite(run, k).retry_count

\* C4: a run of processMessage on a queued record in which nothing fails
\* writes the statuses processing and completed, in that order and no other,
\* returns status true, and stores as result the output it returns.
C4_SuccessfulRunCompletes ==
    \A run \in ConsumerRuns :
        (run.before.exists /\ run.before.status = "queued" /\ run.fault = "none") =>
            /\ StatusesWritten(run) = <<"processing", "completed">>
            /\ run.after.status = "completed"
            /\ run.outcome.kind = "return"
            /\ run.outcome.status = TRUE
            /\ run.after.result = run.outcome.result
            /\ run.outcome.result = ApiResult(run.action)

C4_Witness ==
    /\ inv.op = "sqs"
    /\ \E run \in ConsumerRuns :
         /\ run.before.exists
         /\ run.before.status = "queued"
         /\ run.fault = "none"
         /\ records[run.execution_id].status = "completed"

\* C5: once a record's status is completed, no write of processMessage, through
\* a delivery, a redelivery or handleConsumer, in the try block or in the
\* failure handling, sets it to processing, queued or failed.
C5_CompletedIsTerminal ==
    \A run \in ConsumerRuns :
        \A k \in DOMAIN run.writes :
            BeforeWrite(run, k).status = "completed" =>
                run.writes[k].status = "completed"

\* C6: once a record's status is failed, no write of processMessage changes it,
\* and a replayExecution that changes it leaves queued with retry_count 0.
C6_FailedOnlyReplayed ==
    /\ \A run \in ConsumerRuns :
          \A k \in DOMAIN run.writes :
              BeforeWrite(run, k).status = "failed" =>
                  run.writes[k].status = "failed"
    /\ \A item \in ReplayItems :
          (item.before.status = "failed" /\ item.after.status # "failed") =>
              /\ item.after.status = "queued"
              /\ item.after.retry_count = 0

\* C7: a replayExecution of a failed record that reports success leaves status
\* queued and retry_count 0, whatever the retry_count was, and has sent exactly
\* one message for that id; a later successful replay of the id in the same
\* request leaves the same record.
C7_ReplayResetsFailed ==
    \A i \in DOMAIN inv.items :
        LET item == inv.items[i] IN
        (item.before.exists /\ item.before.status = "failed" /\ item.result.success) =>
            /\ item.after.status = "queued"
            /\ item.after.retry_count = 0
            /\ item.sent = 1
            /\ \A j \in DOMAIN inv.items :
                  (/\ j > i
                   /\ inv.items[j].execution_id = item.execution_id
                   /\ inv.items[j].result.success) =>
                      inv.items[j].after = item.after

C7_Witness ==
    \E i, j \in DOMAIN inv.items :
        /\ i < j
        /\ inv.items[i].execution_id = inv.items[j].execution_id
        /\ inv.items[i].before.status = "failed"
        /\ inv.items[i].before.retry_count > MAX_RETRY_ATTEMPTS
        /\ inv.items[i].result.success
        /\ inv.items[j].result.success

\* C8: in replayAllFromDLQ a delete is issued for a dead-letter message only
\* when replayExecution returned success for it; a message whose replay
\* reports failure gets no delete and is still in the dead-letter queue.
C8_DeleteOnlyAfterSuccess ==
    ReplayAllPass =>
        \A item \in ReplayItems :
            /\ item.deleted # "none" => item.result.success
            /\ ~item.result.success =>
                   /\ item.deleted = "none"
                   /\ \E m \in dlq : m.handle = item.handle

C8_Witness ==
    /\ ReplayAllPass
    /\ \E a, b \in ReplayItems :
         /\ ~a.result.success
         /\ a.before.exists
         /\ b.result.success
         /\ b.deleted = "ok"
         /\ \A m \in dlq : m.handle # b.handle

\* C9: replayExecution never raises: it returns, and when its read, send,
\* reset or log write rejects, or the record is missing, it returns success
\* false with the message of that error; a request listing ids is therefore
\* answered with status true.
C9_ReplayNeverRaises ==
    /\ \A item \in ReplayItems :
          /\ item.result.kind = "return"
          /\ item.fault # "none" =>
                 /\ ~item.result.success
                 /\ item.result.error = ReplayFaultMessage(item.fault)
          /\ (item.fault = "none" /\ ~item.before.exists) =>
                 /\ ~item.result.success
                 /\ item.result.error = NotFound
    /\ (inv.op = "replay" /\ inv.has_ids) => inv.ret.status

C9_Witness ==
    /\ inv.op = "replay"
    /\ inv.has_ids
    /\ \E i, j \in DOMAIN inv.items :
         /\ i < j
         /\ inv.items[i].fault \in {"send", "update"}
         /\ inv.items[j].fault \in {"get", "log"}
         /\ inv.ret.status

\* C10: a replay-all pass that fetched messages replays every one of them and
\* lists every one in the detail it returns, whatever failed for the items
\* before it.
C10_EveryFetchedMessageReplayed ==
    (ReplayAllPass /\ Len(inv.messages) > 0) =>
        /\ Len(inv.items) = Len(inv.messages)
        /\ inv.ret.status
        /\ Len(inv.ret.result.details) = Len(inv.messages)

\* C11: a createAndQueueExecution that returns success returns an id that had
\* no record and no message before the call, and right after the call the
\* record of that id is queued with retry_count 0 and the main queue holds
\* exactly one message for the id, carrying the submitted payload.
C11_SubmitReturnsFreshQueuedId ==
    [][(inv.op = "none" /\ inv'.op = "submit" /\ inv'.ret.status) =>
          LET id == inv'.ret.result.execution_id IN
          /\ ~records[id].exists
          /\ MessagesFor(mainq, id) = 0
          /\ \A m \in dlq : m.execution_id # id
          /\ records'[id] = [NoRecord EXCEPT !.exists = TRUE, !.execution_id = id,
                                             !.status = "queued", !.retry_count = 0,
                                             !.action = inv'.body.action,
                                             !.payload = inv'.body.action]
          /\ MessagesFor(mainq', id) = 1
          /\ CopiesIn(MessageBody(id, inv'.body.action), mainq') = 1]_vars

C11_Witness ==
    /\ inv.op = "submit"
    /\ inv.ret.status
    /\ inv.ret.result.execution_id = 2
    /\ records[1].exists
    /\ records[1].status = "completed"
    /\ records[2].status = "queued"

\* C12: createAndQueueExecution starts both the create and the send; when
\* exactly one of them rejects it raises to its caller, and what the other did
\* stays: a queued record without a message, or a message without a record.
C12_PartialSubmitNotRolledBack ==
    (inv.op = "submit" /\ inv.resolved.create # inv.resolved.send) =>
        /\ inv.ret.kind = "raise"
        /\ ~inv.ret.status
        /\ inv.ret.error = IF inv.resolved.create THEN QueueError ELSE StoreError
        /\ inv.resolved.create =>
               /\ records[inv.execution_id].exists
               /\ records[inv.execution_id].status = "queued"
               /\ MessagesFor(mainq, inv.execution_id) = 0
        /\ inv.resolved.send =>
               /\ ~records[inv.execution_id].exists
               /\ MessagesFor(mainq, inv.execution_id) = 1

C12_Witness ==
    /\ inv.op = "submit"
    /\ inv.resolved.send
    /\ ~inv.resolved.create
    /\ inv.ret.kind = "raise"
    /\ MessagesFor(mainq, inv.execution_id) = 1

\* What an entry point answers when it caught error.
Envelope(error) == Return(FALSE, error, NoResult)
EntryPoints == {"producer", "consumer", "replay"}

MissingFieldErrors ==
    {"Missing required field: action",
     "Missing required field: execution_id (for get-status action)",
     "Missing required field: message (for send-slack-message action)",
     "Missing required field: payload (for send-slack-formatted action)"}

C19_ValidationErrors ==
    inv.op = "producer" =>
        LET b == inv.body
            Rejected(error) == inv.ret = Envelope(error) /\ inv.from = ""
            NoAct == b.action \in {NoAction, ""}
            Unknown == ~NoAct /\ b.action \notin VALID_ACTIONS
            NoId == b.action = "get-status" /\ b.execution_id = Undefined
            NoMessage == b.action = "send-slack-message" /\ b.message \in {NoAction, ""}
            NoPayload == b.action = "send-slack-formatted" /\ b.payload \in {NoAction, ""}
        IN  /\ NoAct => Rejected("Missing required field: action")
            /\ Unknown =>
                   /\ Rejected(InvalidActionError)
                   /\ InvalidActionError \notin MissingFieldErrors
            /\ NoId => Rejected("Missing required field: execution_id (for get-status action)")
            /\ NoMessage =>
                   Rejected("Missing required field: message (for send-slack-message action)")
            /\ NoPayload =>
                   Rejected("Missing required field: payload (for send-slack-formatted action)")
            /\ ~(NoAct \/ Unknown \/ NoId \/ NoMessage \/ NoPayload) =>
                   /\ inv.ret.error \notin MissingFieldErrors \cup {InvalidActionError}
                   /\ inv.ret.status \/ inv.from # "" \/ inv.ret.error = NotFound

C19_Witness ==
    /\ inv.op = "producer"
    /\ inv.body.action = "send-slack-formatted"
    /\ inv.body.payload = NoAction
    /\ inv.body.message = "text"
    /\ inv.body.execution_id = 1
    /\ inv.ret =
          Envelope("Missing required field: payload (for send-slack-formatted action)")

C15_ListedIdsBypassDLQ ==
    [][(inv.op = "none" /\ inv'.op = "replay") =>
          /\ inv'.has_ids =>
                 /\ [i \in DOMAIN inv'.items |-> inv'.items[i].execution_id]
                        = inv'.execution_ids
                 /\ inv'.fetches = 0
                 /\ inv'.messages = <<>>
                 /\ \A i \in DOMAIN inv'.items : inv'.items[i].deleted = "none"
                 /\ dlq' = dlq
          /\ ~inv'.has_ids =>
                 /\ inv'.fetches = 1
                 /\ \A i \in DOMAIN inv'.items :
                        inv'.items[i].execution_id = inv'.messages[i].execution_id]_vars

C15_Witness ==
    /\ inv.op = "replay"
    /\ inv.has_ids
    /\ inv.execution_ids = <<2, 1>>
    /\ inv.items[2].result.success
    /\ dlq # {}

\* C16: one handleReplay without a list receives from the dead-letter queue at
\* most once, asking for at most 10 messages, and replays no more than it
\* received, each received message once; it does not go back for the messages
\* it left.
C16_OneReceivePerPass ==
    ReplayAllPass =>
        /\ inv.fetches <= 1
        /\ inv.asked <= 10
        /\ Len(inv.messages) <= inv.asked
        /\ Len(inv.items) <= Len(inv.messages)
        /\ \A i \in DOMAIN inv.items : inv.items[i].handle = inv.messages[i].handle
        /\ \A i, j \in DOMAIN inv.messages :
               i # j => inv.messages[i].handle # inv.messages[j].handle

C16_Witness ==
    /\ ReplayAllPass
    /\ inv.fetches = 1
    /\ Len(inv.messages) = 1
    /\ Len(inv.items) = 1
    /\ inv.items[1].deleted = "ok"
    /\ \E m \in dlq : m.handle # inv.messages[1].handle

\* C17: every status-true answer of handleReplay has total = replayed + failed,
\* total the number of messages fetched or of ids listed, replayed the number
\* of items whose replay reported success, failed the number that reported
\* failure, and in details one entry per item, in the order processed.
C17_ReplayCounts ==
    (inv.op = "replay" /\ inv.ret.status) =>
        LET r == inv.ret.result
            Successes == {i \in DOMAIN inv.items : inv.items[i].result.success}
        IN  /\ r.total = r.replayed + r.failed
            /\ r.total = IF inv.has_ids THEN Len(inv.execution_ids)
                         ELSE Len(inv.messages)
            /\ r.total = Len(inv.items)
            /\ r.replayed = Cardinality(Successes)
            /\ r.failed = Cardinality(DOMAIN inv.items \ Successes)
            /\ r.total > 0 =>
                   r.details = [i \in DOMAIN inv.items |-> inv.items[i].result]

C17_Witness ==
    /\ inv.op = "replay"
    /\ inv.ret.status
    /\ inv.ret.result.total = 2
    /\ inv.ret.result.replayed = 1
    /\ inv.ret.result.failed = 1
    /\ ~inv.has_ids

\* C18: in every reachable state every record's retry_count is between 0 and
\* 3, and a record with status failed has retry_count 3.
C18_RetryCountWithinLimit ==
    \A id \in ExecIds :
        records[id].exists =>
            /\ records[id].retry_count <= 3
            /\ records[id].status = "failed" => records[id].retry_count = 3

\* C21: the handler answers a controller reply with status true with code 200
\* and one with status false, an unknown route included, with code 400; an
\* error raised inside the dispatch, such as a body that does not parse, with
\* code 500; and an event that is neither from SQS nor from the API Gateway
\* with code 400.
C21_StatusCodes ==
    /\ inv.op \in EntryPoints =>
           inv.code = IF inv.ret.status THEN 200 ELSE 400
    /\ inv.op = "other" =>
           LET e == inv.event
               Api == e.http \/ e.path # NoPath
           IN  /\ ~Api => inv.code = 400 /\ inv.ret = Envelope("Unknown event source")
               /\ (Api /\ ~e.body_ok) =>
                      inv.code = 500 /\ inv.ret = Envelope(SyntaxError)
               /\ (Api /\ e.body_ok) =>
                      inv.code = 400 /\ inv.ret = Envelope(InvalidRoute)

C21_Witness ==
    /\ inv.op = "other"
    /\ inv.event.path = "/consumer"
    /\ ~inv.event.body_ok
    /\ inv.code = 500
    /\ records[1].status = "completed"

\* C22: the result of a record is absent when it is created and is written
\* only by a write of completed or of failed: the write of processing, the
\* write that returns the record to queued after a failed attempt, and the
\* reset of a replay leave the result as it was, absent or not.
C22_ResultOnlyWithOutcome ==
    /\ \A run \in ConsumerRuns :
          \A k \in DOMAIN run.writes :
              /\ run.writes[k].status \in {"processing", "queued"} =>
                     run.writes[k].result = BeforeWrite(run, k).result
              /\ run.writes[k].result # BeforeWrite(run, k).result =>
                     run.writes[k].status \in {"completed", "failed"}
    /\ \A item \in ReplayItems : item.after.result = item.before.result
    /\ (inv.op = "submit" /\ inv.resolved.create) =>
           records[inv.execution_id].result = NoResult

\* A failed attempt whose try block had stored the result before it raised
\* returns the record to queued with that result.
C22_Witness ==
    \E run \in ConsumerRuns :
        /\ run.before.status = "queued"
        /\ run.before.result = NoResult
        /\ FailedAttempt(run)
        /\ Len(run.writes) = 3
        /\ run.writes[2].status = "completed"
        /\ run.writes[3].status = "queued"
        /\ run.writes[3].result = ApiResult(run.action)
        /\ run.after.result = ApiResult(run.action)

\* C23: once createExecution has put a record, no call of
\* createAndQueueExecution, handleConsumer (and the processMessage it runs) or
\* handleReplay changes its execution_id, action or payload, and the
\* execution_id stored in a record is the id it is stored under, so no two
\* records share one.
C23_CreatedFieldsImmutable ==
    [][\A id \in ExecIds :
          (records[id].exists /\ records[id].execution_id # Undefined) =>
              /\ records'[id].exists
              /\ Created(records'[id]) = Created(records[id])
              /\ records'[id].execution_id = id
              /\ \A other \in ExecIds \ {id} :
                    records'[other].execution_id # id]_vars

\* Both records created, and the first replayed after it had failed.
C23_Witness ==
    /\ records[1].execution_id = 1
    /\ records[2].execution_id = 2
    /\ inv.op = "replay"
    /\ \E item \in ReplayItems :
          /\ item.execution_id = 1
          /\ item.before.status = "failed"
          /\ item.after.status = "queued"
          /\ item.result.success

\* C24: whenever processMessage raises, the record it ran on has status queued
\* or failed when the error reaches the caller, never processing, also when a
\* read or a write of the store rejects inside the catch block.
C24_OutcomeWrittenBeforeRaise ==
    \A run \in ConsumerRuns :
        (run.before.exists /\ run.outcome.kind = "raise") =>
            run.after.status \in {"queued", "failed"}

\* C25: with the redrive policy moving a message to the dead-letter queue after
\* 3 failed deliveries, whenever a message for an execution is in the
\* dead-letter queue and the execution has seen nothing but failed attempts
\* since its creation, no replay, its record has status failed.
C25_DeadLetterMeansFailed ==
    \A d \in dlq :
        hist[d.execution_id] # Void => records[d.execution_id].status = "failed"

C27_BatchInOrderNoReprocessing ==
    inv.op = "sqs" =>
        /\ Len(inv.runs) <= Len(inv.batch)
        /\ \A k \in DOMAIN inv.runs :
              /\ inv.runs[k].execution_id = inv.batch[k].execution_id
              /\ k < Len(inv.runs) => inv.runs[k].outcome.kind = "return"
        /\ inv.ret.kind = "raise" =>
              /\ inv.runs[Len(inv.runs)].outcome.kind = "raise"
              /\ inv.ret.error = inv.runs[Len(inv.runs)].outcome.error
        /\ inv.ret.kind = "return" => Len(inv.runs) = Len(inv.batch)
        /\ \A k \in DOMAIN inv.runs :
              inv.runs[k].outcome.kind = "return" => k \notin inv.returned

\* C28: replayExecution on a record whose status is queued, processing or
\* completed does not reset the record and sends no message for it.
C28_ReplayOnlyFailed ==
    \A item \in ReplayItems :
        (item.before.exists
           /\ item.before.status \in {"queued", "processing", "completed"}) =>
            /\ item.after = item.before
            /\ item.sent = 0

\* C29: for an id without a record, replayExecution returns success false with
\* error 'Execution not found', sends no message and writes no record and no
\* log entry; handleReplay with execution_ids goes on to the ids after it and
\* counts the missing id in failed.
C29_MissingRecordReported ==
    /\ \A item \in ReplayItems :
          (~item.before.exists /\ item.fault = "none") =>
              /\ item.result = ReplayCaught(item.execution_id, "Execution not found")
              /\ item.sent = 0
              /\ item.logged = 0
              /\ item.after = item.before
              /\ ~item.after.exists
    /\ (inv.op = "replay" /\ inv.has_ids) =>
          /\ Len(inv.items) = Len(inv.execution_ids)
          /\ \A k \in DOMAIN inv.items :
                inv.items[k].execution_id = inv.execution_ids[k]
          /\ inv.ret.status =>
                /\ inv.ret.result.total = Len(inv.execution_ids)
                /\ inv.ret.result.failed >=
                       Cardinality({k \in DOMAIN inv.items :
                                      ~inv.items[k].before.exists})
                /\ \A k \in DOMAIN inv.items :
                      ~inv.items[k].before.exists =>
                          ~inv.ret.result.details[k].success

\* A list of two ids: the first has no record, the second is replayed.
C29_Witness ==
    /\ inv.op = "replay"
    /\ inv.has_ids
    /\ inv.execution_ids = <<2, 1>>
    /\ ~inv.items[1].before.exists
    /\ inv.items[1].result.error = "Execution not found"
    /\ inv.items[2].result.success
    /\ inv.items[2].sent = 1
    /\ inv.ret.result.failed = 1
    /\ inv.ret.result.replayed = 1

\* C30: the message replayExecution sends for an execution is a message the
\* producer sends for it: the execution id with the payload of a submission.
C30_ReplayedMessageIsSubmitted ==
    \A item \in ReplayItems :
        item.sent = 1 =>
            item.message \in {MessageBody(item.execution_id, payload) :
                                payload \in Actions}

\* C31: when only writes of the log fail, the outcome of the operation is the
\* one it has without the failure: processMessage leaves the record completed
\* and returns success, replayExecution reports success, and
\* createAndQueueExecution returns the execution id.
C31_LogFailureChangesNothing ==
    /\ \A run \in ConsumerRuns :
          (run.before.exists
             /\ run.fault \in {"log_processing", "log_completed"}
             /\ run.catch_fault \in {"none", "log"}) =>
              /\ run.outcome.kind = "return"
              /\ run.after.status = "completed"
    /\ \A item \in ReplayItems :
          (item.before.exists /\ item.fault = "log") => item.result.success
    /\ (inv.op = "submit" /\ inv.resolved.create /\ inv.resolved.send) =>
          /\ inv.ret.status
          /\ inv.ret.result.execution_id = inv.execution_id

\* C32: when replayExecution reports success false it has sent no message and
\* has not changed the record; so in a pass of replayAllFromDLQ the messages
\* sent to the main queue for an id are no more than the dead-letter messages
\* deleted for that id.
C32_ReplayAllOrNothing ==
    /\ \A item \in ReplayItems :
          ~item.result.success =>
              /\ item.sent = 0
              /\ item.after = item.before
    /\ ReplayAllPass =>
          \A id \in ExecIds :
              Cardinality({k \in DOMAIN inv.items :
                             inv.items[k].execution_id = id /\ inv.items[k].sent = 1})
                <= Cardinality({k \in DOMAIN inv.items :
                                  inv.items[k].execution_id = id
                                    /\ inv.items[k].deleted = "ok"})

\* C33: while no call rejects, under every interleaving of replay with the
\* consumer, whenever no operation is in progress and a record has status
\* queued, a message for its id is in the main queue or in the dead-letter
\* queue: the reset of a replay never overwrites the completed status of a
\* consumer that has already processed the message the replay sent.
C33_NoExecutionStranded ==
    Idle =>
        \A id \in ExecIds :
            (records[id].exists /\ records[id].status = "queued") =>
                \/ MessagesFor(mainq, id) > 0
                \/ \E d \in dlq : d.execution_id = id

\* C34: under every interleaving of the create and the send of a submission
\* with a consumer that receives the new message, createExecution never puts
\* the record back to queued with retry_count 0 once the consumer has written
\* completed for the id.
C34_CreateNeverOverwritesConsumer ==
    (inv.op = "submit" /\ inv.replaced.exists) =>
        ~ /\ inv.replaced.status = "completed"
          /\ records[inv.execution_id].status = "queued"
          /\ records[inv.execution_id].retry_count = 0

====
